---------------------------- MODULE Spec2Model ----------------------------
(***************************************************************************)
(* PyKOB / MKOB: the flow of Morse code through kobmain.py (the relay      *)
(* router: from_key, from_keyboard, from_internet, toggle_connect,         *)
(* update_sender, reset_wire_state) and the handlers of kobactions.py      *)
(* that drive it.                                                          *)
(*                                                                         *)
(* The module-level globals of kobmain.py are the state.  Every call a     *)
(* handler makes on a collaborator (sounder, reader, recorder, internet,   *)
(* reader window, station list) is appended, in program order, to the      *)
(* effect list fx of that handler invocation.                              *)
(***************************************************************************)
EXTENDS Integers, Sequences, FiniteSets

VARIABLES
    connected,         \* kobmain.connected
    circuit_closer,    \* kobmain.circuit_closer
    internet_active,   \* kobmain.internet_active
    sender_ID,         \* kobmain.sender_ID
    varCircuitCloser,  \* kw.varCircuitCloser (Tk IntVar of the checkbox)
    station_id,        \* myRecorder.station_id
    wire,              \* myRecorder.wire
    Remote,            \* kc.Remote
    Local,             \* kc.Local
    fx,                \* collaborator calls made by the last handler
    last,              \* the last handler: name, arguments, globals on entry
    prev,              \* the handler before it: name, id, entry flag, notifications
    log,               \* the lines of the recorder's target file
    pb,                \* Recorder.playback: its locals, arguments and last loop pass
    thr,               \* threads inside a handler: position and local values
    announced,         \* the identity the station list was told last
    config_wire        \* the wire number of the configuration (config.set_wire)

vars == <<connected, circuit_closer, internet_active, sender_ID,
          varCircuitCloser, station_id, wire, Remote, Local, fx, last, prev,
          log, pb, thr, announced, config_wire>>

----------------------------------------------------------------------------
(* Bounds of the inputs *)

MaxCodeLen == 2

\* durations (ms) a code sequence is built from: key open (negative), key closed
OpenDurations == {-1000, -60}
ClosedDurations == {1, 60}

RECURSIVE Alternating(_)
Alternating(n) ==
    IF n = 0 THEN {<< >>}
    ELSE LET shorter == Alternating(n - 1)
         IN  shorter \cup
             {Append(c, d) : c \in {x \in shorter : Len(x) = n - 1},
                             d \in OpenDurations \cup ClosedDurations}

SameSign(a, b) == (a < 0) = (b < 0)

\* code sequences: signs alternate from element to element
Codes == {c \in Alternating(MaxCodeLen) :
            \A i \in 1..(Len(c) - 1) : ~SameSign(c[i], c[i + 1])}

LocalStation == "KOB1"                   \* kc.config.station
RemoteStations == {"RMT2"}
StationIds == {LocalStation} \cup RemoteStations

----------------------------------------------------------------------------
(* Program constants *)

latch_code == <<-1000, 1>>
WireNo == 11
CodeSourceLocal == "local"
CodeSourceWire == "wire"

----------------------------------------------------------------------------
(* The globals as one record, threaded through the handlers *)

Cur == [connected        |-> connected,
        circuit_closer   |-> circuit_closer,
        internet_active  |-> internet_active,
        sender_ID        |-> sender_ID,
        varCircuitCloser |-> varCircuitCloser,
        station_id       |-> station_id,
        wire             |-> wire,
        fx               |-> << >>,
        writable         |-> TRUE,     \* open(target_file_path, "a+") succeeds
        raised           |-> FALSE]    \* an exception is propagating

Call(k, c) == [k |-> k, c |-> c, s |-> "", o |-> "", w |-> 0]

\* nothing of a handler runs once an exception propagates out of it
Emit(S, e) == IF S.raised THEN S ELSE [S EXCEPT !.fx = Append(@, e)]

\* myKOB.sounder(code)
sounder(S, code) == Emit(S, Call("sounder", code))
\* myReader.decode(code)
decode(S, code) == Emit(S, Call("decode", code))
\* myReader.flush()
flush(S) == Emit(S, Call("flush", << >>))
\* myInternet.write(code)
write(S, code) == Emit(S, Call("write", code))

\* Recorder.record: one event holding the recorder's wire and station_id;
\* open() raises OSError when the target cannot be opened for appending
record(S, code, source) ==
    IF S.writable
    THEN Emit(S, [k |-> "record", c |-> code, s |-> S.station_id,
                  o |-> source, w |-> S.wire])
    ELSE [Emit(S, Call("OSError", code)) EXCEPT !.raised = TRUE]

\* km.circuit_closer_closed(closed)
circuit_closer_closed(S, closed) ==
    IF S.raised THEN S ELSE [S EXCEPT !.circuit_closer = closed]

\* ka.kw.varCircuitCloser.set(v); ka.doCircuitCloser()
doCircuitCloser(S) == circuit_closer_closed(S, S.varCircuitCloser = 1)

setCircuitCloser(S, v) ==
    IF S.raised THEN S ELSE doCircuitCloser([S EXCEPT !.varCircuitCloser = v])

\* internet_active = v
set_internet_active(S, v) ==
    IF S.raised THEN S ELSE [S EXCEPT !.internet_active = v]

EndsClosed(code) == Len(code) > 0 /\ code[Len(code)] = 1
EndsOpen(code) == Len(code) > 0 /\ code[Len(code)] # 1

\* update_sender without the comparison with sender_ID
update_sender_always(S, id) ==
    LET S1 == [S EXCEPT !.sender_ID = id]
        S2 == flush(S1)
        S3 == Emit(S2, [Call("codereader_append", << >>) EXCEPT !.s = S1.sender_ID])
        S4 == Emit(S3, [Call("new_sender", << >>) EXCEPT !.s = S1.sender_ID])
        S5 == Emit(S4, Call("Reader", << >>))
    IN  [S5 EXCEPT !.station_id = S5.sender_ID]

\* update_sender that leaves the recorder's station id alone
update_sender_keeps_station(S, id) ==
    IF id # S.sender_ID
    THEN LET S1 == [S EXCEPT !.sender_ID = id]
             S2 == flush(S1)
             S3 == Emit(S2, [Call("codereader_append", << >>) EXCEPT !.s = S1.sender_ID])
             S4 == Emit(S3, [Call("new_sender", << >>) EXCEPT !.s = S1.sender_ID])
         IN  Emit(S4, Call("Reader", << >>))
    ELSE S

update_sender(S, id) ==
    IF id # S.sender_ID
    THEN LET S1 == [S EXCEPT !.sender_ID = id]
             S2 == flush(S1)
             S3 == Emit(S2, [Call("codereader_append", << >>) EXCEPT !.s = S1.sender_ID])
             S4 == Emit(S3, [Call("new_sender", << >>) EXCEPT !.s = S1.sender_ID])
             S5 == Emit(S4, Call("Reader", << >>))
         IN  [S5 EXCEPT !.station_id = S5.sender_ID]
    ELSE S

\* from_key without the internet_active test
from_key_unarbitrated(S, code, remote) ==
    LET S1 == IF EndsOpen(code) THEN setCircuitCloser(S, 0) ELSE S
        S2 == IF ~S1.circuit_closer /\ S1.connected /\ remote
              THEN write(S1, code) ELSE S1
        S3 == IF ~S2.circuit_closer
              THEN decode(record(update_sender(S2, LocalStation),
                                 code, CodeSourceLocal), code)
              ELSE S2
    IN  IF EndsClosed(code)
        THEN flush(setCircuitCloser(S3, 1))
        ELSE setCircuitCloser(S3, 0)

\* from_key that clears the checkbox on a trailing +1 as well
from_key_never_closes(S, code, remote) ==
    LET S1 == IF EndsOpen(code) THEN setCircuitCloser(S, 0) ELSE S
        S2 == IF ~S1.circuit_closer /\ S1.connected /\ remote
              THEN write(S1, code) ELSE S1
        S3 == IF ~S2.circuit_closer /\ ~S2.internet_active
              THEN decode(record(update_sender(S2, LocalStation),
                                 code, CodeSourceLocal), code)
              ELSE S2
    IN  IF EndsClosed(code)
        THEN flush(setCircuitCloser(S3, 0))
        ELSE setCircuitCloser(S3, 0)

\* from_key that opens the circuit only when it returns
from_key_opens_late(S, code, remote) ==
    LET S2 == IF ~S.circuit_closer /\ S.connected /\ remote
              THEN write(S, code) ELSE S
        S3 == IF ~S2.circuit_closer /\ ~S2.internet_active
              THEN decode(record(update_sender(S2, LocalStation),
                                 code, CodeSourceLocal), code)
              ELSE S2
    IN  IF EndsClosed(code)
        THEN flush(setCircuitCloser(S3, 1))
        ELSE setCircuitCloser(S3, 0)

from_key(S, code, remote) ==
    LET S1 == IF EndsOpen(code) THEN setCircuitCloser(S, 0) ELSE S
        S2 == IF ~S1.circuit_closer /\ S1.connected /\ remote
              THEN write(S1, code) ELSE S1
        S3 == IF ~S2.circuit_closer /\ ~S2.internet_active
              THEN decode(record(update_sender(S2, LocalStation),
                                 code, CodeSourceLocal), code)
              ELSE S2
    IN  IF EndsClosed(code)
        THEN flush(setCircuitCloser(S3, 1))
        ELSE setCircuitCloser(S3, 0)

\* from_keyboard that writes to the wire whatever the circuit state
from_keyboard_writes_closed(S, code, remote, local) ==
    LET S1 == IF EndsOpen(code) THEN setCircuitCloser(S, 0) ELSE S
        S2 == IF S1.connected /\ remote
              THEN write(S1, code) ELSE S1
        S3 == IF ~S2.circuit_closer /\ ~S2.internet_active
              THEN LET T1 == IF local THEN sounder(S2, code) ELSE S2
                   IN  decode(record(update_sender(T1, LocalStation),
                                     code, CodeSourceLocal), code)
              ELSE S2
    IN  IF EndsClosed(code)
        THEN flush(setCircuitCloser(S3, 1))
        ELSE S3

from_keyboard(S, code, remote, local) ==
    LET S1 == IF EndsOpen(code) THEN setCircuitCloser(S, 0) ELSE S
        S2 == IF ~S1.circuit_closer /\ S1.connected /\ remote
              THEN write(S1, code) ELSE S1
        S3 == IF ~S2.circuit_closer /\ ~S2.internet_active
              THEN LET T1 == IF local THEN sounder(S2, code) ELSE S2
                   IN  decode(record(update_sender(T1, LocalStation),
                                     code, CodeSourceLocal), code)
              ELSE S2
    IN  IF EndsClosed(code)
        THEN flush(setCircuitCloser(S3, 1))
        ELSE S3

\* from_internet without the connected test
from_internet_unchecked(S, code) ==
    LET S1 == IF S.circuit_closer
              THEN record(decode(sounder(S, code), code), code, CodeSourceWire)
              ELSE S
    IN  IF EndsClosed(code)
        THEN flush(set_internet_active(S1, TRUE))
        ELSE set_internet_active(S1, TRUE)

\* from_internet without the circuit_closer test
from_internet_delivers_open(S, code) ==
    IF S.connected
    THEN LET S1 == record(decode(sounder(S, code), code), code, CodeSourceWire)
         IN  IF EndsClosed(code)
             THEN flush(set_internet_active(S1, TRUE))
             ELSE set_internet_active(S1, TRUE)
    ELSE [S EXCEPT !.internet_active = FALSE]

\* from_internet that gives the line back on a packet ending in +1
from_internet_releases_on_latch(S, code) ==
    IF S.connected
    THEN LET S1 == IF S.circuit_closer
                   THEN record(decode(sounder(S, code), code), code, CodeSourceWire)
                   ELSE S
         IN  IF EndsClosed(code)
             THEN flush(set_internet_active(S1, FALSE))
             ELSE set_internet_active(S1, TRUE)
    ELSE [S EXCEPT !.internet_active = FALSE]

from_internet(S, code) ==
    IF S.connected
    THEN LET S1 == IF S.circuit_closer
                   THEN record(decode(sounder(S, code), code), code, CodeSourceWire)
                   ELSE S
         IN  IF EndsClosed(code)
             THEN flush(set_internet_active(S1, TRUE))
             ELSE set_internet_active(S1, TRUE)
    ELSE [S EXCEPT !.internet_active = FALSE]

\* toggle_connect that forgets internet_active on disconnect
toggle_connect_keeps_active(S) ==
    LET S0 == [S EXCEPT !.connected = ~S.connected]
    IN  IF S0.connected
        THEN Emit(Emit(S0, Call("clear_station_list", << >>)),
                  [Call("connect", << >>) EXCEPT !.w = WireNo])
        ELSE LET S1 == flush(Emit(S0, Call("disconnect", << >>)))
                 S2 == [S1 EXCEPT !.connected = FALSE]
                 S3 == IF S2.circuit_closer
                       THEN flush(decode(sounder(S2, latch_code), latch_code))
                       ELSE S2
             IN  Emit(S3, Call("clear_station_list", << >>))

\* toggle_connect that latches the sounder whatever the circuit state
toggle_connect_always_latches(S) ==
    LET S0 == [S EXCEPT !.connected = ~S.connected]
    IN  IF S0.connected
        THEN Emit(Emit(S0, Call("clear_station_list", << >>)),
                  [Call("connect", << >>) EXCEPT !.w = WireNo])
        ELSE LET S1 == flush(Emit(S0, Call("disconnect", << >>)))
                 S2 == [S1 EXCEPT !.connected = FALSE, !.internet_active = FALSE]
                 S3 == flush(decode(sounder(S2, latch_code), latch_code))
             IN  Emit(S3, Call("clear_station_list", << >>))

toggle_connect(S) ==
    LET S0 == [S EXCEPT !.connected = ~S.connected]
    IN  IF S0.connected
        THEN Emit(Emit(S0, Call("clear_station_list", << >>)),
                  [Call("connect", << >>) EXCEPT !.w = WireNo])
        ELSE LET S1 == flush(Emit(S0, Call("disconnect", << >>)))
                 S2 == [S1 EXCEPT !.connected = FALSE, !.internet_active = FALSE]
                 S3 == IF S2.circuit_closer
                       THEN flush(decode(sounder(S2, latch_code), latch_code))
                       ELSE S2
             IN  Emit(S3, Call("clear_station_list", << >>))

reset_wire_state(S) == [S EXCEPT !.internet_active = FALSE]

\* handle_escape without the call of reset_wire_state
handle_escape_keeps_wire(S) ==
    doCircuitCloser([S EXCEPT !.varCircuitCloser = 1 - S.varCircuitCloser])

handle_escape(S) ==
    reset_wire_state(
        doCircuitCloser([S EXCEPT !.varCircuitCloser = 1 - S.varCircuitCloser]))

----------------------------------------------------------------------------
(* The state machine *)

NoCall == [op |-> "init", id |-> "", ia |-> FALSE, n |-> 0]

\* number of observer notifications (station list) in an effect list
Notified(f) == Cardinality({i \in 1..Len(f) : f[i].k = "new_sender"})

\* kobmain.py as imported: the module globals and the recorder of line 211
RouterInit ==
    /\ connected = FALSE
    /\ circuit_closer = TRUE
    /\ internet_active = FALSE
    /\ sender_ID = ""
    /\ varCircuitCloser = 1
    /\ station_id = ""
    /\ wire = WireNo
    /\ config_wire = WireNo
    /\ Remote \in BOOLEAN
    /\ Local \in BOOLEAN
    /\ fx = << >>
    /\ last = [op |-> "init", code |-> << >>, id |-> "", pre |-> Cur]
    /\ prev = NoCall

\* no recording written, no playback running, no thread inside update_sender
NoPlayback == [state |-> "idle"]
NoThreads == << >>

Init ==
    /\ RouterInit
    /\ log = << >>
    /\ pb = NoPlayback
    /\ thr = NoThreads
    /\ announced = ""

\* a handler ran from the current globals and returned T
Handler(op, code, id, T) ==
    /\ connected' = T.connected
    /\ circuit_closer' = T.circuit_closer
    /\ internet_active' = T.internet_active
    /\ sender_ID' = T.sender_ID
    /\ varCircuitCloser' = T.varCircuitCloser
    /\ station_id' = T.station_id
    /\ wire' = T.wire
    /\ fx' = T.fx
    /\ last' = [op |-> op, code |-> code, id |-> id, pre |-> Cur]
    /\ prev' = [op |-> last.op, id |-> last.id,
                ia |-> last.pre.internet_active, n |-> Notified(fx)]

\* a handler of the router: the recording, the player and the configuration
\* are left alone
Step(op, code, id, T) ==
    /\ Handler(op, code, id, T)
    /\ UNCHANGED <<Remote, Local, log, pb, thr, announced, config_wire>>

FromKey == \E code \in Codes : Step("from_key", code, "", from_key(Cur, code, Remote))

FromKeyboard ==
    \E code \in Codes :
        Step("from_keyboard", code, "", from_keyboard(Cur, code, Remote, Local))

FromInternet == \E code \in Codes : Step("from_internet", code, "", from_internet(Cur, code))

ToggleConnect == Step("toggle_connect", << >>, "", toggle_connect(Cur))

ResetWireState == Step("reset_wire_state", << >>, "", reset_wire_state(Cur))

HandleEscape == Step("handle_escape", << >>, "", handle_escape(Cur))

\* myInternet.monitor_sender(update_sender): the wire announces a sender
UpdateSender == \E id \in StationIds : Step("update_sender", << >>, id, update_sender(Cur, id))

Next ==
    \/ FromKey
    \/ FromKeyboard
    \/ FromInternet
    \/ ToggleConnect
    \/ ResetWireState
    \/ HandleEscape
    \/ UpdateSender

Spec == Init /\ [][Next]_vars

----------------------------------------------------------------------------
(* Reading the effect list of the last handler *)

\* positions of fx holding a call of kind k
At(k) == {i \in 1..Len(fx) : fx[i].k = k}

\* how often the last handler made call k with code c
Count(k, c) == Cardinality({i \in At(k) : fx[i].c = c})

KeyOps == {"from_key", "from_keyboard"}

\* the circuit is Open when the body of from_key/from_keyboard handles the packet
OpenWhenProcessed == ~last.pre.circuit_closer \/ EndsOpen(last.code)

Disconnected == last.op = "toggle_connect" /\ last.pre.connected

----------------------------------------------------------------------------
(* C1..C10: the relay router *)

\* C1: a key or keyboard packet routed while internet_active is true is never
\* passed to the sounder, never decoded and never recorded.
C1_NoLocalWhileInternetActive ==
    (last.op \in KeyOps /\ last.pre.internet_active)
        => (At("sounder") = {} /\ At("decode") = {} /\ At("record") = {})

\* a keyboard packet handled with the circuit Open while a remote station holds
\* the line (it still goes out on the wire)
C1_Witness ==
    /\ last.op \in KeyOps
    /\ last.pre.internet_active
    /\ OpenWhenProcessed
    /\ Count("write", last.code) = 1

\* C2 as stated: from_key(c) followed by from_key(latch_code) leaves the circuit
\* Closed and internet_active false.
C2_LatchClosesAndReleases ==
    (last.op = "from_key" /\ last.code = latch_code /\ prev.op = "from_key")
        => (circuit_closer /\ ~internet_active)

\* C2 amended: from_key(c) followed by from_key(latch_code) leaves the circuit
\* Closed and internet_active as it was before the two calls.
C2_LatchClosesKeepsArbitration ==
    (last.op = "from_key" /\ last.code = latch_code /\ prev.op = "from_key")
        => (circuit_closer /\ internet_active = prev.ia)

\* the pair of calls made while a remote station holds the line
C2_Witness ==
    /\ last.op = "from_key" /\ last.code = latch_code /\ prev.op = "from_key"
    /\ prev.ia
    /\ ~last.pre.circuit_closer

\* C3: after a disconnect, connected is false and internet_active is false.
C3_DisconnectResets == Disconnected => (~connected /\ ~internet_active)

\* a disconnect while a remote station holds the line
C3_Witness == Disconnected /\ last.pre.internet_active

\* C4 as stated: on every disconnect the latch marker is delivered to the sounder
\* and the circuit is Closed afterwards.
C4_DisconnectLatches ==
    Disconnected => (Count("sounder", latch_code) = 1 /\ circuit_closer)

\* C4 amended: a disconnect leaves the circuit state as it was; the latch marker
\* is delivered to the sounder (once) exactly when the circuit was Closed.
C4_DisconnectLatchesIfClosed ==
    Disconnected =>
        /\ circuit_closer = last.pre.circuit_closer
        /\ Count("sounder", latch_code) = (IF last.pre.circuit_closer THEN 1 ELSE 0)
        /\ Cardinality(At("sounder")) = Count("sounder", latch_code)

\* a disconnect with the circuit Open
C4_Witness == Disconnected /\ ~last.pre.circuit_closer

\* C5: an empty code sequence from the key, the keyboard or the wire is dropped:
\* no write, sounder, decode or record, and the circuit state is unchanged.
C5_EmptyDropped ==
    (last.op \in KeyOps \cup {"from_internet"} /\ last.code = << >>)
        => /\ At("write") = {} /\ At("sounder") = {}
           /\ At("decode") = {} /\ At("record") = {}
           /\ circuit_closer = last.pre.circuit_closer

\* C6: a wire packet arriving while connected is false reaches neither sounder,
\* codec nor recorder, and internet_active is false afterwards.
C6_WireDiscardedWhenDisconnected ==
    (last.op = "from_internet" /\ ~last.pre.connected)
        => (fx = << >> /\ ~internet_active)

\* a wire packet after a disconnect, with the circuit Closed
C6_Witness ==
    /\ last.op = "from_internet" /\ ~last.pre.connected
    /\ last.pre.circuit_closer /\ last.code # << >>
    /\ prev.op = "toggle_connect"

WireDelivered(n) ==
    /\ Count("sounder", last.code) = n /\ Cardinality(At("sounder")) = n
    /\ Count("decode", last.code) = n /\ Cardinality(At("decode")) = n
    /\ Count("record", last.code) = n /\ Cardinality(At("record")) = n
    /\ \A i \in At("record") : fx[i].o = CodeSourceWire

\* C7 as stated: a wire packet received while connected is delivered once each
\* to sounder, codec and recorder and sets internet_active if the circuit is
\* Closed; otherwise it reaches none of them and internet_active becomes false.
C7_WireRouting ==
    (last.op = "from_internet" /\ last.pre.connected)
        => IF last.pre.circuit_closer
           THEN WireDelivered(1) /\ internet_active
           ELSE WireDelivered(0) /\ ~internet_active

\* C7 amended: ... otherwise (circuit Open) it reaches none of them and
\* internet_active becomes true as well.
C7_WireRoutingSetsActive ==
    (last.op = "from_internet" /\ last.pre.connected)
        => /\ IF last.pre.circuit_closer THEN WireDelivered(1) ELSE WireDelivered(0)
           /\ internet_active

\* a wire packet received while connected with the circuit Open
C7_Witness ==
    /\ last.op = "from_internet" /\ last.pre.connected
    /\ ~last.pre.circuit_closer /\ ~last.pre.internet_active

\* C8: a key or keyboard packet is written to the wire once if the circuit is
\* Open when it is processed, connected is true and Remote is enabled, and not
\* written otherwise.
C8_WireWrite ==
    last.op \in KeyOps =>
        /\ Count("write", last.code) =
              (IF OpenWhenProcessed /\ last.pre.connected /\ Remote THEN 1 ELSE 0)
        /\ Cardinality(At("write")) = Count("write", last.code)

\* a packet that opens a Closed circuit and goes out on the wire
C8_Witness ==
    /\ last.op \in KeyOps /\ last.pre.circuit_closer
    /\ Count("write", last.code) = 1

\* C9: update_sender notifies the observer exactly when the id differs from
\* sender_ID; of two consecutive calls with the same id the second notifies
\* nobody and leaves sender_ID, the codec and the recorder's station id alone.
C9_UpdateSenderIdempotent ==
    last.op = "update_sender" =>
        /\ Notified(fx) = (IF last.id # last.pre.sender_ID THEN 1 ELSE 0)
        /\ sender_ID = last.id
        /\ (prev.op = "update_sender" /\ prev.id = last.id) =>
              /\ fx = << >>
              /\ prev.n + Notified(fx) <= 1
              /\ sender_ID = last.pre.sender_ID
              /\ station_id = last.pre.station_id

\* two consecutive calls with the same, new id
C9_Witness ==
    /\ last.op = "update_sender" /\ prev.op = "update_sender"
    /\ prev.id = last.id /\ prev.n = 1 /\ Notified(fx) = 0

\* C10: when a key or keyboard packet is decoded locally and the recognised
\* sender is not the local station, then, in this order: the codec is flushed,
\* the observer notified, the codec re-instantiated, the packet recorded with
\* the local station id, the packet decoded.
C10_SenderSwitchBeforeDecode ==
    (/\ last.op \in KeyOps
     /\ OpenWhenProcessed /\ ~last.pre.internet_active
     /\ last.pre.sender_ID # LocalStation)
        => \E f \in At("flush"), n \in At("new_sender"), r \in At("Reader"),
              w \in At("record"), d \in At("decode") :
                /\ f < n /\ n < r /\ r < w /\ w < d
                /\ fx[n].s = LocalStation
                /\ fx[w].s = LocalStation /\ fx[w].c = last.code
                /\ fx[d].c = last.code
                /\ At("record") = {w} /\ At("decode") = {d}
                /\ station_id = LocalStation /\ sender_ID = LocalStation

\* a key packet decoded locally right after a remote station was the sender
C10_Witness ==
    /\ last.op \in KeyOps
    /\ OpenWhenProcessed /\ ~last.pre.internet_active
    /\ last.pre.sender_ID \in RemoteStations
    /\ last.pre.station_id \in RemoteStations

----------------------------------------------------------------------------
(* The router when the recorder's target file cannot be opened *)

Unwritable == [Cur EXCEPT !.writable = FALSE]

FromKeyUnwritable ==
    \E code \in Codes : Step("from_key", code, "", from_key(Unwritable, code, Remote))

FromKeyboardUnwritable ==
    \E code \in Codes :
        Step("from_keyboard", code, "", from_keyboard(Unwritable, code, Remote, Local))

FromInternetUnwritable ==
    \E code \in Codes : Step("from_internet", code, "", from_internet(Unwritable, code))

NextIO ==
    \/ Next
    \/ FromKeyUnwritable
    \/ FromKeyboardUnwritable
    \/ FromInternetUnwritable

SpecIO == Init /\ [][NextIO]_vars

\* C12: if the recorder's write fails while a packet is routed, the packet is
\* still decoded and the circuit state / internet_active update that follows the
\* packet is still applied.
C12_RouterSurvivesWriteFailure ==
    (last.op \in KeyOps \cup {"from_internet"} /\ At("OSError") # {})
        => /\ Count("decode", last.code) = 1
           /\ last.op = "from_key" => circuit_closer = EndsClosed(last.code)
           /\ (last.op = "from_keyboard" /\ EndsClosed(last.code)) => circuit_closer
           /\ last.op = "from_internet" => internet_active

----------------------------------------------------------------------------
(* pykob/recorder.py: Recorder.record and the session log *)

MaxLines == 2          \* lines in a recording
MaxTicks == 1          \* readings of the clock: 0 .. MaxTicks ticks
TickMs == 3000         \* milliseconds per tick

\* get_timestamp(): the wall clock in ms (it is not monotonic)
Timestamps == {n * TickMs : n \in 0..MaxTicks}

Wires == {WireNo, WireNo + 1}
Sources == {CodeSourceLocal, CodeSourceWire}

\* code sequences that get recorded: a heartbeat, one led by a 2 s pause, one
\* led by a 1 s pause
RecordedCodes == {<< >>, <<-2000, 60>>, <<-1000, 60, -60>>}

\* code sequences found in a recording: also one led by the discontinuity pause
\* of 32.767 s and one that starts with the key closed
PlayedCodes == RecordedCodes \cup {<<-32767, 60>>, <<60, -60>>}

\* json.dump(data, fp); fp.write('\n'): one line of text holding a JSON object
json_dump(data) == [text |-> "json", data |-> data]

\* Recorder.record, with the file as the sequence of its lines
Recorder_record_truncating(file, w, s, code, source, ts) ==
    <<json_dump([ts |-> ts, w |-> w, s |-> s, o |-> source, c |-> code])>>

Recorder_record(file, w, s, code, source, ts) ==
    Append(file, json_dump([ts |-> ts, w |-> w, s |-> s, o |-> source, c |-> code]))

\* kobmain.py with no handler running; only the recorder is used
RouterIdle ==
    /\ RouterInit
    /\ Remote = FALSE
    /\ Local = FALSE

RecInit ==
    /\ RouterIdle
    /\ log = << >>
    /\ pb = NoPlayback
    /\ thr = NoThreads
    /\ announced = ""

routerGlobals == <<connected, circuit_closer, internet_active, sender_ID,
                   varCircuitCloser, Remote, Local, fx, prev, config_wire>>

\* myRecorder.record(code, source)
Record ==
    /\ Len(log) < MaxLines
    /\ \E code \in RecordedCodes, source \in Sources, ts \in Timestamps :
          /\ log' = Recorder_record(log, wire, station_id, code, source, ts)
          /\ last' = [op |-> "record", code |-> code, id |-> source, pre |-> Cur]
    /\ UNCHANGED <<station_id, wire, routerGlobals, pb, thr, announced>>

\* myRecorder.station_id = id
SetStationId ==
    /\ \E id \in StationIds : station_id' = id
    /\ UNCHANGED <<wire, log, last, routerGlobals, pb, thr, announced>>

\* myRecorder.wire = w
SetWire ==
    /\ \E w \in Wires : wire' = w
    /\ UNCHANGED <<station_id, log, last, routerGlobals, pb, thr, announced>>

NextRec ==
    \/ Record
    \/ SetStationId
    \/ SetWire

SpecRec == RecInit /\ [][NextRec]_vars

\* C11: the session log is append-only: each record(code, source) appends one
\* event at the end, holding the recorder's wire and station_id of that moment
\* with the given source and code; earlier lines never change, also when the
\* recorder's station_id or wire is changed afterwards.
C11_AppendOnly ==
    /\ [][/\ Len(log') >= Len(log)
          /\ SubSeq(log', 1, Len(log)) = log
          /\ log' # log =>
                /\ Len(log') = Len(log) + 1
                /\ last'.op = "record"
                /\ log'[Len(log')].text = "json"
                /\ log'[Len(log')].data.w = wire
                /\ log'[Len(log')].data.s = station_id
                /\ log'[Len(log')].data.o = last'.id
                /\ log'[Len(log')].data.c = last'.code
                /\ log'[Len(log')].data.ts \in Timestamps]_vars
    /\ [](last.op = "record" =>
            /\ Len(log) > 0
            /\ log[Len(log)].data.w = last.pre.wire
            /\ log[Len(log)].data.s = last.pre.station_id
            /\ log[Len(log)].data.c = last.code)

\* two events recorded, the recorder's station id and wire changed after each
C11_Witness ==
    /\ Len(log) = 2
    /\ log[1].data.s # log[2].data.s /\ log[2].data.s # station_id
    /\ log[1].data.w # log[2].data.w /\ log[2].data.w # wire
    /\ log[1].data.c # << >>

----------------------------------------------------------------------------
(* pykob/recorder.py: Recorder.playback, one pass of its loop per step.  The  *)
(* source file is read line by line; its lines are whatever a recorder wrote, *)
(* or text that is no event.                                                  *)

NoneWire == 0                  \* lwire = None (no wire of the model is 0)
NoneStation == "<None>"        \* lstation = None

MaxSilences == {0, 2}          \* max_silence, seconds
SpeedFactors == {100, 200}     \* speed_factor, percent

\* every line Recorder.record can have written
EventLines ==
    {Recorder_record(<< >>, w, s, c, o, ts)[1] :
        w \in Wires, s \in StationIds, c \in PlayedCodes,
        o \in Sources, ts \in Timestamps}

\* a line cut short by a crash in mid-write, and an object without its "c" key
TornLine == [text |-> "torn"]
KeylessLine == [text |-> "json",
                data |-> [ts |-> 0, w |-> WireNo, s |-> LocalStation,
                          o |-> CodeSourceLocal]]

SourceLines == EventLines \cup {TornLine, KeylessLine}

\* a call playback makes, or the exception that ends it
PCall(k) == [k |-> k, w |-> NoneWire, s |-> NoneStation, ms |-> 0, c |-> << >>]

Out(P, e) == [P EXCEPT !.out = Append(@, e)]

Raise(P, exception) == [Out(P, PCall(exception)) EXCEPT !.state = "raised"]

\* lines 196-203: wire and station against the last ones seen
notify_changes_swapped(P, d) ==
    LET P1 == IF d.w # P.lwire
              THEN [P EXCEPT !.lwire = d.w]
              ELSE Out(P, [PCall("wire_callback") EXCEPT !.w = d.w])
    IN  IF d.s # P1.lstation
        THEN [P1 EXCEPT !.lstation = d.s]
        ELSE Out(P1, [PCall("station_callback") EXCEPT !.s = d.s])

notify_changes(P, d) ==
    LET P1 == IF d.w # P.lwire
              THEN Out([P EXCEPT !.lwire = d.w],
                       [PCall("wire_callback") EXCEPT !.w = d.w])
              ELSE P
    IN  IF d.s # P1.lstation
        THEN Out([P1 EXCEPT !.lstation = d.s],
                 [PCall("station_callback") EXCEPT !.s = d.s])
        ELSE P1

\* lines 204-205
first_timestamp(P, d) == IF P.lts < 0 THEN [P EXCEPT !.lts = d.ts] ELSE P

\* lines 212-213
adopt(P, d) == [P EXCEPT !.wire = d.w, !.station_id = d.s]

\* lines 222-225, in ms: the gap between the events, cut down to max_silence
silence_uncapped(gap, max_silence) == gap

silence(gap, max_silence) ==
    IF max_silence > 0 /\ gap > max_silence * 1000
    THEN max_silence * 1000
    ELSE gap

\* lines 214-227: codePause = -code[0] / 1000.0 strictly between 1.0 and 32.767;
\* time.sleep raises ValueError on a negative length
long_pause(P, d) ==
    IF -d.c[1] > 1000 /\ -d.c[1] < 32767
    THEN LET pause == silence(d.ts - P.lts, P.max_silence)
             P1 == Out(P, [PCall("sleep") EXCEPT !.ms = pause])
         IN  IF pause < 0
             THEN Raise(P1, "ValueError")
             ELSE [P1 EXCEPT !.code = [d.c EXCEPT ![1] = -1]]
    ELSE [P EXCEPT !.code = d.c]

\* lines 228-232: round(sf * c) is bound to the loop variable c only; the
\* elements of code stay as they are
speed(code, speed_factor) ==
    IF speed_factor # 100
    THEN [i \in 1..Len(code) |-> code[i]]
    ELSE code

\* lines 233-234: Recorder has no attribute code_callback
deliver(P, code) ==
    IF P.code_callback
    THEN Raise(P, "AttributeError")
    ELSE P

\* lines 214-235
play_code(P, d) ==
    LET P1 == long_pause(P, d)
        P2 == IF P1.state = "raised"
              THEN P1
              ELSE [P1 EXCEPT !.code = speed(P1.code, P1.speed_factor)]
        P3 == IF P2.state = "raised" THEN P2 ELSE deliver(P2, P2.code)
    IN  IF P3.state = "raised" THEN P3 ELSE [P3 EXCEPT !.lts = d.ts]

\* one pass that takes over the event's wire and station before it looks at
\* the code
playback_line_adopts_first(P, line) ==
    IF line.text # "json"
    THEN Raise(P, "JSONDecodeError")
    ELSE IF ~({"c", "ts", "w", "s"} \subseteq DOMAIN line.data)
    THEN Raise(P, "KeyError")
    ELSE LET d == line.data
             P1 == adopt(first_timestamp(notify_changes(P, d), d), d)
         IN  IF d.c = << >> THEN P1 ELSE play_code(P1, d)

\* lines 190-235: one pass of `for line in fp`
playback_line(P, line) ==
    IF line.text # "json"
    THEN Raise(P, "JSONDecodeError")
    ELSE IF ~({"c", "ts", "w", "s"} \subseteq DOMAIN line.data)
    THEN Raise(P, "KeyError")
    ELSE LET d == line.data
             P1 == first_timestamp(notify_changes(P, d), d)
         IN  IF d.c = << >> THEN P1 ELSE play_code(adopt(P1, d), d)

NoLine == [text |-> ""]

Seen(P) == [lts |-> P.lts, lstation |-> P.lstation, lwire |-> P.lwire,
            station_id |-> P.station_id, wire |-> P.wire]

\* lines 181-188: the arguments and the locals before the first line
playback(max_silence, speed_factor, code_callback) ==
    [state |-> "playing", n |-> 0,
     lts |-> -1, lstation |-> NoneStation, lwire |-> NoneWire,
     station_id |-> station_id, wire |-> wire,
     max_silence |-> max_silence, speed_factor |-> speed_factor,
     code_callback |-> code_callback,
     line |-> NoLine, code |-> << >>, out |-> << >>,
     pre |-> [lts |-> -1, lstation |-> NoneStation, lwire |-> NoneWire,
              station_id |-> station_id, wire |-> wire]]

PlayInit ==
    /\ RouterIdle
    /\ log = << >>
    /\ pb = NoPlayback
    /\ thr = NoThreads
    /\ announced = ""

notPlayer == <<routerGlobals, last, log, thr, announced>>

PlaybackStart ==
    /\ pb.state = "idle"
    /\ \E ms \in MaxSilences, sf \in SpeedFactors, cb \in BOOLEAN :
          pb' = playback(ms, sf, cb)
    /\ UNCHANGED <<station_id, wire, notPlayer>>

\* the next line of the source file is read and handled
PlayLine ==
    /\ pb.state = "playing"
    /\ pb.n < MaxLines
    /\ \E line \in SourceLines :
          LET P == [pb EXCEPT !.n = @ + 1, !.line = line, !.code = << >>,
                              !.out = << >>, !.pre = Seen(pb)]
          IN  pb' = playback_line(P, line)
    /\ station_id' = pb'.station_id
    /\ wire' = pb'.wire
    /\ UNCHANGED notPlayer

\* end of file: the loop and the with block are left
PlaybackEnd ==
    /\ pb.state = "playing"
    /\ pb' = [pb EXCEPT !.state = "done"]
    /\ UNCHANGED <<station_id, wire, notPlayer>>

\* playback has returned or raised; the recorder can play again
PlaybackReturn ==
    /\ pb.state \in {"done", "raised"}
    /\ pb' = NoPlayback
    /\ UNCHANGED <<station_id, wire, notPlayer>>

NextPlay ==
    \/ PlaybackStart
    \/ PlayLine
    \/ PlaybackEnd
    \/ PlaybackReturn

SpecPlay == PlayInit /\ [][NextPlay]_vars

----------------------------------------------------------------------------
(* C13..C19: the session player *)

\* positions of the last pass's calls of kind k
PAt(k) == {i \in 1..Len(pb.out) : pb.out[i].k = k}

\* a pass of the loop has run; pb.line is the line it read
LastPass == pb.state # "idle" /\ pb.n >= 1

\* the pass read an event with a code in it
PlayedEvent == LastPass /\ pb.line \in EventLines /\ pb.line.data.c # << >>

\* round(a / b) as Python rounds: to the nearest integer, a tie to the even one
RoundDiv(a, b) ==
    LET q == a \div b
        r == a % b
    IN  IF 2 * r < b THEN q
        ELSE IF 2 * r > b THEN q + 1
        ELSE IF q % 2 = 0 THEN q ELSE q + 1

Magnitude(c) == IF c < 0 THEN -c ELSE c

\* an element replayed at speed_factor percent
Scaled(c, speed_factor) ==
    IF Magnitude(c) > 2 THEN RoundDiv(100 * c, speed_factor) ELSE c

\* C13: recording an event with a non-empty code and playing the one-line log
\* at speed_factor 100 reports its wire and station through the callbacks and
\* delivers a code sequence equal to the recorded one.
C13_RoundTrip ==
    (PlayedEvent /\ pb.n = 1 /\ pb.speed_factor = 100 /\ pb.code_callback)
        => /\ \E i \in PAt("wire_callback") : pb.out[i].w = pb.line.data.w
           /\ \E i \in PAt("station_callback") : pb.out[i].s = pb.line.data.s
           /\ \E i \in PAt("code_callback") : pb.out[i].c = pb.line.data.c

\* C14: at a speed_factor other than 100 the code handed over for delivery has
\* every element of magnitude above 2 ms multiplied by 100/speed_factor and
\* rounded, and every other element unchanged (a leading pause already slept
\* through is left aside).
C14_SpeedScaling ==
    (PlayedEvent /\ pb.speed_factor # 100 /\ PAt("ValueError") = {})
        => /\ Len(pb.code) = Len(pb.line.data.c)
           /\ \A i \in 1..Len(pb.code) :
                 \/ i = 1 /\ PAt("sleep") # {}
                 \/ pb.code[i] = Scaled(pb.line.data.c[i], pb.speed_factor)

\* C15: with max_silence > 0 every sleep of the player lasts at most
\* max_silence seconds.
C15_SilenceCapped ==
    (LastPass /\ pb.max_silence > 0)
        => \A i \in PAt("sleep") : pb.out[i].ms <= pb.max_silence * 1000

\* a gap of more than max_silence between two events, slept as max_silence
C15_Witness ==
    /\ PlayedEvent /\ pb.max_silence > 0
    /\ pb.line.data.ts - pb.pre.lts > pb.max_silence * 1000
    /\ \E i \in PAt("sleep") : pb.out[i].ms = pb.max_silence * 1000

\* C16: the station (wire) callback is invoked for an event exactly when its
\* station (wire) differs from the last one seen, before anything is done with
\* the event's code, and the event's station (wire) is the last one seen
\* afterwards, so that an event repeating it causes no invocation.
C16_ChangeCallbacks ==
    (LastPass /\ pb.line \in EventLines)
        => /\ Cardinality(PAt("station_callback")) =
                 (IF pb.line.data.s # pb.pre.lstation THEN 1 ELSE 0)
           /\ Cardinality(PAt("wire_callback")) =
                 (IF pb.line.data.w # pb.pre.lwire THEN 1 ELSE 0)
           /\ \A i \in PAt("station_callback") : pb.out[i].s = pb.line.data.s
           /\ \A i \in PAt("wire_callback") : pb.out[i].w = pb.line.data.w
           /\ \A i \in PAt("station_callback") \cup PAt("wire_callback") :
                 \A j \in 1..Len(pb.out) :
                    pb.out[j].k \in {"sleep", "code_callback", "AttributeError",
                                     "ValueError"} => i < j
           /\ pb.lstation = pb.line.data.s
           /\ pb.lwire = pb.line.data.w
           /\ pb.n = 1 => (PAt("station_callback") # {} /\ PAt("wire_callback") # {})

\* a second event with the station of the first and another wire, its code
\* led by a long pause
C16_Witness ==
    /\ PlayedEvent /\ pb.n = 2
    /\ pb.line.data.s = pb.pre.lstation
    /\ pb.line.data.w # pb.pre.lwire
    /\ PAt("station_callback") = {} /\ PAt("wire_callback") = {1}
    /\ PAt("sleep") = {2}

EmptyEvent == LastPass /\ pb.line \in EventLines /\ pb.line.data.c = << >>

\* C17 as stated: an event with an empty code is a no-op: no delivery, no
\* sleep, no station-change and no wire-change callback, and the last-seen
\* station and wire and the recorder's station_id and wire stay as they are.
C17_EmptyIsNoOp ==
    EmptyEvent =>
        /\ pb.out = << >>
        /\ pb.lstation = pb.pre.lstation /\ pb.lwire = pb.pre.lwire
        /\ pb.station_id = pb.pre.station_id /\ pb.wire = pb.pre.wire
        /\ station_id = pb.pre.station_id /\ wire = pb.pre.wire

\* C17 amended: an event with an empty code causes no delivery and no sleep and
\* leaves the recorder's station_id and wire alone, but its station and wire
\* are compared with the last ones seen like those of any event: where they
\* differ the callback is invoked and the last-seen value becomes the event's.
C17_EmptySkipsCodeOnly ==
    EmptyEvent =>
        /\ \A i \in 1..Len(pb.out) :
              pb.out[i].k \in {"station_callback", "wire_callback"}
        /\ (PAt("station_callback") # {}) = (pb.line.data.s # pb.pre.lstation)
        /\ (PAt("wire_callback") # {}) = (pb.line.data.w # pb.pre.lwire)
        /\ pb.lstation = pb.line.data.s /\ pb.lwire = pb.line.data.w
        /\ pb.station_id = pb.pre.station_id /\ pb.wire = pb.pre.wire
        /\ station_id = pb.pre.station_id /\ wire = pb.pre.wire
        /\ pb.state = "playing" \/ pb.state = "done"

\* a heartbeat from another station on another wire than the event before it
C17_Witness ==
    /\ EmptyEvent /\ pb.n = 2
    /\ pb.pre.station_id # "" /\ pb.line.data.s # pb.pre.station_id
    /\ pb.line.data.s # pb.pre.lstation /\ pb.line.data.w # pb.pre.lwire
    /\ Len(pb.out) = 2

\* C18: a line that fails to parse (no JSON, or a mandatory key missing) is
\* skipped and playback goes on.
C18_BadLineSkipped ==
    (LastPass /\ pb.line \notin EventLines)
        => /\ pb.state \in {"playing", "done"}
           /\ PAt("JSONDecodeError") = {} /\ PAt("KeyError") = {}

\* C19: an event whose timestamp is smaller than that of the event before it
\* does not make playback fail: no sleep of negative length is requested.
C19_OutOfOrderTolerated ==
    LastPass =>
        /\ \A i \in PAt("sleep") : pb.out[i].ms >= 0
        /\ PAt("ValueError") = {}

----------------------------------------------------------------------------
(* update_sender called from the producers' threads.  kobmain.py holds no     *)
(* lock: the key callback (line 204), the keyboard sender and the internet    *)
(* thread (lines 205-207) run update_sender statement by statement, and a     *)
(* statement that passes sender_ID on first loads it and then makes the call. *)

Threads == {"key", "keyboard", "wire"}

\* the ids a producer passes: kc.config.station (lines 64, 89), or the id of
\* a station on the wire (line 207)
CallerIds(t) == IF t = "wire" THEN RemoteStations ELSE {LocalStation}

ConcInit ==
    /\ RouterIdle
    /\ log = << >>
    /\ pb = NoPlayback
    /\ thr = [t \in Threads |-> [pc |-> "idle", id |-> "", reg |-> ""]]
    /\ announced = ""

notSender == <<connected, circuit_closer, internet_active, varCircuitCloser,
               wire, Remote, Local, fx, last, prev, log, pb, config_wire>>

At_(t, pc) == thr[t].pc = pc

Goto(t, pc) == thr' = [thr EXCEPT ![t].pc = pc]

\* update_sender(id) is entered
US_Call(t) ==
    /\ At_(t, "idle")
    /\ \E id \in CallerIds(t) : thr' = [thr EXCEPT ![t].pc = "157", ![t].id = id]
    /\ UNCHANGED <<sender_ID, station_id, announced, notSender>>

\* line 157: if id != sender_ID
US_Test(t) ==
    /\ At_(t, "157")
    /\ IF thr[t].id # sender_ID THEN Goto(t, "158") ELSE Goto(t, "idle")
    /\ UNCHANGED <<sender_ID, station_id, announced, notSender>>

\* line 158: sender_ID = id
US_Assign(t) ==
    /\ At_(t, "158")
    /\ sender_ID' = thr[t].id
    /\ Goto(t, "159")
    /\ UNCHANGED <<station_id, announced, notSender>>

\* lines 159-160: myReader.flush(); ka.codereader_append(...)
US_Flush(t) ==
    /\ At_(t, "159")
    /\ Goto(t, "161")
    /\ UNCHANGED <<sender_ID, station_id, announced, notSender>>

\* line 161: the argument sender_ID of kobstationlist.new_sender is loaded
US_LoadSender(t) ==
    /\ At_(t, "161")
    /\ thr' = [thr EXCEPT ![t].pc = "161c", ![t].reg = sender_ID]
    /\ UNCHANGED <<sender_ID, station_id, announced, notSender>>

\* line 161: kobstationlist.new_sender runs; lines 162-164: a new Reader
US_NewSender(t) ==
    /\ At_(t, "161c")
    /\ announced' = thr[t].reg
    /\ Goto(t, "166")
    /\ UNCHANGED <<sender_ID, station_id, notSender>>

\* line 166: the right-hand side sender_ID is loaded
US_LoadStation(t) ==
    /\ At_(t, "166")
    /\ thr' = [thr EXCEPT ![t].pc = "166s", ![t].reg = sender_ID]
    /\ UNCHANGED <<sender_ID, station_id, announced, notSender>>

\* line 166: the setter of Recorder.station_id runs; update_sender returns
US_StoreStation(t) ==
    /\ At_(t, "166s")
    /\ station_id' = thr[t].reg
    /\ thr' = [thr EXCEPT ![t].pc = "idle", ![t].reg = ""]
    /\ UNCHANGED <<sender_ID, announced, notSender>>

NextConc ==
    \E t \in Threads :
        \/ US_Call(t)
        \/ US_Test(t)
        \/ US_Assign(t)
        \/ US_Flush(t)
        \/ US_LoadSender(t)
        \/ US_NewSender(t)
        \/ US_LoadStation(t)
        \/ US_StoreStation(t)

SpecConc == ConcInit /\ [][NextConc]_vars

AllReturned == \A t \in Threads : thr[t].pc = "idle"

\* C20: under every interleaving of update_sender calls made by the key,
\* keyboard and wire producers, once all calls have returned the recorder's
\* station_id equals sender_ID and the identity announced last equals sender_ID.
C20_SenderConsistent ==
    AllReturned => (station_id = sender_ID /\ announced = sender_ID)

----------------------------------------------------------------------------
(* C23, C25, C26: the relay router, order of the circuit update, escape and   *)
(* the arbitration flag                                                       *)

\* the last handler recorded and decoded its packet, each once
ProcessedLocally ==
    Count("record", last.code) = 1 /\ Count("decode", last.code) = 1

\* the last handler neither recorded nor decoded anything
NotProcessed == At("record") = {} /\ At("decode") = {}

\* C23: for a non-empty key or keyboard packet, a trailing key-open element
\* opens the circuit before the packet is written, recorded and decoded (a
\* packet arriving at a Closed circuit is itself processed), a trailing +1
\* closes it only after the processing (the packet is processed as the circuit
\* stood on arrival), and on return the circuit is Closed exactly when the
\* trailing element was +1.
C23_CircuitFollowsTrailing ==
    (last.op \in KeyOps /\ Len(last.code) > 0)
        => /\ circuit_closer = EndsClosed(last.code)
           /\ (EndsOpen(last.code) /\ ~last.pre.internet_active)
                 => ProcessedLocally
           /\ (EndsOpen(last.code) /\ last.pre.connected /\ Remote)
                 => Count("write", last.code) = 1
           /\ (EndsClosed(last.code) /\ ~last.pre.circuit_closer
                                     /\ ~last.pre.internet_active)
                 => ProcessedLocally
           /\ (EndsClosed(last.code) /\ last.pre.circuit_closer)
                 => (NotProcessed /\ At("write") = {})

\* a key packet ending key-open that arrived at a Closed circuit and was
\* processed
C23_Witness ==
    /\ last.op = "from_key"
    /\ EndsOpen(last.code)
    /\ last.pre.circuit_closer
    /\ ProcessedLocally
    /\ ~circuit_closer

\* C25: handle_escape leaves the circuit closer the negation of what it was and
\* internet_active false; the key packet routed next, if it ends key-open, is
\* recorded and decoded, also when a remote station held the line before the
\* escape.
C25_EscapeRegainsLine ==
    /\ last.op = "handle_escape"
           => (circuit_closer = ~last.pre.circuit_closer /\ ~internet_active)
    /\ (last.op = "from_key" /\ prev.op = "handle_escape" /\ EndsOpen(last.code))
           => ProcessedLocally

\* a key packet processed right after an escape that took the line from a
\* remote station
C25_Witness ==
    /\ last.op = "from_key"
    /\ prev.op = "handle_escape"
    /\ prev.ia
    /\ EndsOpen(last.code)
    /\ ProcessedLocally

\* the handlers that may set internet_active to false
Releases ==
    \/ Disconnected
    \/ last.op = "from_internet" /\ ~last.pre.connected
    \/ last.op \in {"reset_wire_state", "handle_escape"}

\* C26: internet_active, once true, stays true across key, keyboard and wire
\* packets handled while connected (a wire packet ending in +1 included); only
\* a disconnect, a wire packet handled while not connected, or
\* reset_wire_state make it false.
C26_ActiveUntilReleased ==
    (last.pre.internet_active /\ ~internet_active) => Releases

\* a wire packet ending in +1, handled while connected with the flag set
C26_Witness ==
    /\ last.op = "from_internet"
    /\ last.pre.connected
    /\ last.pre.internet_active
    /\ EndsClosed(last.code)
    /\ internet_active

----------------------------------------------------------------------------
(* C22: the session player, long pauses *)

\* the leading element is a pause strictly between 1 s and 32.767 s
LongLeadingPause(code) == code[1] > -32767 /\ code[1] < -1000

\* C22: at speed_factor 100 and with a code callback, an event led by a pause
\* strictly between 1 s and 32.767 s causes exactly one sleep and is delivered
\* with its leading element replaced by -1 and the rest unchanged; any other
\* event with a code causes no sleep and is delivered unchanged.
C22_LongPauseNeutralized ==
    (PlayedEvent /\ pb.speed_factor = 100 /\ pb.code_callback)
        => LET c == pb.line.data.c
           IN  IF LongLeadingPause(c)
               THEN /\ Cardinality(PAt("sleep")) = 1
                    /\ \E i \in PAt("code_callback") :
                          pb.out[i].c = [c EXCEPT ![1] = -1]
               ELSE /\ PAt("sleep") = {}
                    /\ \E i \in PAt("code_callback") : pb.out[i].c = c

----------------------------------------------------------------------------
(* from_key, from_keyboard and from_internet on their own threads.  The KOB   *)
(* key thread calls from_key, the keyboard sender thread from_keyboard and    *)
(* the Internet thread from_internet (kobmain.py:204-205, 212); nothing       *)
(* serializes them, so their statements interleave.  Calls on the sounder,    *)
(* the reader and the wire touch none of the globals and are taken together   *)
(* with the statement before them.                                            *)

KeyThreads == {"key", "keyboard"}
RaceThreads == KeyThreads \cup {"wire"}

\* packets of the race: one that ends with the key open, and the latch marker
RaceCodes == {<<-60, 60>>, latch_code}

Idle == [pc |-> "idle", code |-> << >>]

RaceInit ==
    /\ RouterIdle
    /\ log = << >>
    /\ pb = NoPlayback
    /\ thr = [t \in RaceThreads |-> Idle]
    /\ announced = ""

raceGlobals == <<connected, circuit_closer, internet_active, sender_ID,
                 varCircuitCloser, station_id>>

raceFixed == <<wire, Remote, Local, fx, prev, pb, announced, config_wire>>

Jump(t, pc) == thr' = [thr EXCEPT ![t].pc = pc]

\* handlers that have been entered and have not returned
Busy == {t \in RaceThreads : thr[t].pc # "idle"}

\* a handler is entered with a packet (while the log has room for the events
\* of all the handlers running)
R_Call(t) ==
    /\ thr[t].pc = "idle"
    /\ Len(log) + Cardinality(Busy) < MaxLines
    /\ \E code \in RaceCodes :
          thr' = [thr EXCEPT ![t] = [pc |-> "entry", code |-> code]]
    /\ UNCHANGED <<raceGlobals, last, log, raceFixed>>

\* from_key 57-59, from_keyboard 80-82
K_Open(t) ==
    /\ t \in KeyThreads
    /\ thr[t].pc = "entry"
    /\ LET T == IF EndsOpen(thr[t].code) THEN setCircuitCloser(Cur, 0) ELSE Cur
       IN  /\ circuit_closer' = T.circuit_closer
           /\ varCircuitCloser' = T.varCircuitCloser
    /\ Jump(t, "circuit")
    /\ UNCHANGED <<connected, internet_active, sender_ID, station_id, last, log,
                   raceFixed>>

\* from_key 60-62, from_keyboard 83-85: if not circuit_closer (and the write)
K_TestCircuit(t) ==
    /\ t \in KeyThreads
    /\ thr[t].pc = "circuit"
    /\ IF ~circuit_closer THEN Jump(t, "active") ELSE Jump(t, "close")
    /\ UNCHANGED <<raceGlobals, last, log, raceFixed>>

\* from_key 63, from_keyboard 86: if not internet_active
K_TestActive(t) ==
    /\ t \in KeyThreads
    /\ thr[t].pc = "active"
    /\ IF ~internet_active THEN Jump(t, "sender") ELSE Jump(t, "close")
    /\ UNCHANGED <<raceGlobals, last, log, raceFixed>>

\* from_key 64, from_keyboard 87-89: update_sender(kc.config.station)
K_Sender(t) ==
    /\ t \in KeyThreads
    /\ thr[t].pc = "sender"
    /\ LET T == update_sender(Cur, LocalStation)
       IN  /\ sender_ID' = T.sender_ID
           /\ station_id' = T.station_id
    /\ Jump(t, "record")
    /\ UNCHANGED <<connected, circuit_closer, internet_active, varCircuitCloser,
                   last, log, raceFixed>>

\* from_key 65-67, from_keyboard 90-92: myRecorder.record, myReader.decode
K_Record(t) ==
    /\ t \in KeyThreads
    /\ thr[t].pc = "record"
    /\ \E ts \in Timestamps :
          log' = Recorder_record(log, wire, station_id, thr[t].code,
                                 CodeSourceLocal, ts)
    /\ last' = [op |-> "record", code |-> thr[t].code, id |-> CodeSourceLocal,
                pre |-> Cur]
    /\ Jump(t, "close")
    /\ UNCHANGED <<raceGlobals, raceFixed>>

\* from_key 68-74, from_keyboard 93-96; the handler returns
K_Close(t) ==
    /\ t \in KeyThreads
    /\ thr[t].pc = "close"
    /\ LET T == IF EndsClosed(thr[t].code) THEN setCircuitCloser(Cur, 1)
                ELSE IF t = "key" THEN setCircuitCloser(Cur, 0)
                ELSE Cur
       IN  /\ circuit_closer' = T.circuit_closer
           /\ varCircuitCloser' = T.varCircuitCloser
    /\ thr' = [thr EXCEPT ![t] = Idle]
    /\ UNCHANGED <<connected, internet_active, sender_ID, station_id, last, log,
                   raceFixed>>

\* from_internet 101: if connected
I_TestConnected ==
    /\ thr["wire"].pc = "entry"
    /\ IF connected THEN Jump("wire", "circuit") ELSE Jump("wire", "release")
    /\ UNCHANGED <<raceGlobals, last, log, raceFixed>>

\* from_internet 102-104: if circuit_closer (and sounder, decode)
I_TestCircuit ==
    /\ thr["wire"].pc = "circuit"
    /\ IF circuit_closer THEN Jump("wire", "record") ELSE Jump("wire", "hold")
    /\ UNCHANGED <<raceGlobals, last, log, raceFixed>>

\* from_internet 105-106: myRecorder.record(code, kob.CodeSource.wire)
I_Record ==
    /\ thr["wire"].pc = "record"
    /\ \E ts \in Timestamps :
          log' = Recorder_record(log, wire, station_id, thr["wire"].code,
                                 CodeSourceWire, ts)
    /\ last' = [op |-> "record", code |-> thr["wire"].code, id |-> CodeSourceWire,
                pre |-> Cur]
    /\ Jump("wire", "hold")
    /\ UNCHANGED <<raceGlobals, raceFixed>>

\* from_internet 107-111: internet_active = True; the handler returns
I_Hold ==
    /\ thr["wire"].pc = "hold"
    /\ internet_active' = TRUE
    /\ thr' = [thr EXCEPT !["wire"] = Idle]
    /\ UNCHANGED <<connected, circuit_closer, sender_ID, varCircuitCloser,
                   station_id, last, log, raceFixed>>

\* from_internet 112-113: internet_active = False; the handler returns
I_Release ==
    /\ thr["wire"].pc = "release"
    /\ internet_active' = FALSE
    /\ thr' = [thr EXCEPT !["wire"] = Idle]
    /\ UNCHANGED <<connected, circuit_closer, sender_ID, varCircuitCloser,
                   station_id, last, log, raceFixed>>

\* the user clicks Connect (toggle_connect) on the window's thread
R_ToggleConnect ==
    /\ LET T == toggle_connect(Cur)
       IN  /\ connected' = T.connected
           /\ internet_active' = T.internet_active
    /\ UNCHANGED <<circuit_closer, sender_ID, varCircuitCloser, station_id,
                   last, log, thr, raceFixed>>

\* reset_wire_state on the window's thread, while a remote station holds the line
R_ResetWireState ==
    /\ internet_active
    /\ internet_active' = reset_wire_state(Cur).internet_active
    /\ UNCHANGED <<connected, circuit_closer, sender_ID, varCircuitCloser,
                   station_id, last, log, thr, raceFixed>>

NextRace ==
    \/ \E t \in RaceThreads : R_Call(t)
    \/ \E t \in KeyThreads :
          \/ K_Open(t)
          \/ K_TestCircuit(t)
          \/ K_TestActive(t)
          \/ K_Sender(t)
          \/ K_Record(t)
          \/ K_Close(t)
    \/ I_TestConnected
    \/ I_TestCircuit
    \/ I_Record
    \/ I_Hold
    \/ I_Release
    \/ R_ToggleConnect
    \/ R_ResetWireState

SpecRace == RaceInit /\ [][NextRace]_vars

\* C21: whatever the interleaving of from_key or from_keyboard with
\* from_internet, a key or keyboard event is appended to the session log only
\* while internet_active is false.
C21_NoKeyEventWhileActive ==
    (last.op = "record" /\ last.id = CodeSourceLocal) => ~last.pre.internet_active

----------------------------------------------------------------------------
(* The handlers of the window (kobactions.py) that connect, play a file and   *)
(* change the wire.  They run one at a time on the window's thread.  What     *)
(* they call on kobmain and on the recorder and is not in the sources         *)
(* (km.disconnect, Recorder.playback_state, playback_start,                   *)
(* playback_pause_resume, playback_stop) follows the specification.           *)

PlaybackStates == {"idle", "playing", "paused"}

\* km.disconnect(): the connection is given up, the line released and the
\* sounder latched
disconnect(S) ==
    LET S1 == Emit(S, Call("disconnect", << >>))
        S2 == [S1 EXCEPT !.connected = FALSE, !.internet_active = FALSE]
    IN  sounder(S2, latch_code)

\* Recorder.playback_start: idle -> playing
playback_start(state) == "playing"

\* Recorder.playback_pause_resume: playing <-> paused
playback_pause_resume(state) ==
    CASE state = "playing" -> "paused"
      [] state = "paused" -> "playing"
      [] OTHER -> state

\* Recorder.playback_stop: playing or paused -> idle
playback_stop(state) == "idle"

\* doConnect that does not look at the playback state
doConnect_unguarded(S, playback_state) == toggle_connect(S)

\* kobactions.doConnect
doConnect(S, playback_state) ==
    IF playback_state # "idle" THEN S ELSE toggle_connect(S)

\* kobactions.doFilePlay with a file chosen
doFilePlay(S) ==
    LET S1 == disconnect(S)
        S2 == Emit(S1, Call("handle_clear_station_list", << >>))
        S3 == Emit(S2, Call("handle_clear", << >>))
        S4 == [S3 EXCEPT !.sender_ID = NoneStation]
    IN  Emit(S4, Call("handle_append_text", << >>))

\* kobmain.change_wire: internet_latched is assigned at line 142 and so is a
\* local of the function; the test of line 141 reads it unbound and raises
\* UnboundLocalError, and lines 142-150 never run
change_wire(S) ==
    LET S1 == flush([S EXCEPT !.connected = FALSE])
    IN  [Emit(S1, Call("UnboundLocalError", << >>)) EXCEPT !.raised = TRUE]

\* kobactions.doWireNo after config.set_wire(w)
doWireNo(S, w) ==
    IF S.connected
    THEN LET S1 == change_wire(S)
         IN  IF S1.raised THEN S1 ELSE [S1 EXCEPT !.wire = w]
    ELSE S

UIInit ==
    /\ RouterIdle
    /\ log = << >>
    /\ pb = NoPlayback
    /\ thr = NoThreads
    /\ announced = ""

DoConnect == Step("doConnect", << >>, "", doConnect(Cur, pb.state))

\* File > Play: the dialog returns a path, or is cancelled
DoFilePlay ==
    \E chosen \in BOOLEAN :
        /\ Handler("doFilePlay", << >>, IF chosen THEN "file" ELSE "",
                   IF chosen THEN doFilePlay(Cur) ELSE Cur)
        /\ pb' = IF chosen THEN [state |-> playback_start(pb.state)] ELSE pb
        /\ UNCHANGED <<Remote, Local, log, thr, announced, config_wire>>

\* kobactions.handle_playback_pauseresume
PlaybackPauseResume ==
    /\ Handler("handle_playback_pauseresume", << >>, "", Cur)
    /\ pb' = [state |-> playback_pause_resume(pb.state)]
    /\ UNCHANGED <<Remote, Local, log, thr, announced, config_wire>>

\* kobactions.handle_playback_stop
PlaybackStop ==
    /\ Handler("handle_playback_stop", << >>, "", Cur)
    /\ pb' = [state |-> playback_stop(pb.state)]
    /\ UNCHANGED <<Remote, Local, log, thr, announced, config_wire>>

\* the player reaches the end of the file
EndOfStream ==
    /\ pb.state = "playing"
    /\ Handler("end_of_stream", << >>, "", Cur)
    /\ pb' = [state |-> "idle"]
    /\ UNCHANGED <<Remote, Local, log, thr, announced, config_wire>>

\* the user enters a wire number
DoWireNo ==
    \E w \in Wires :
        /\ Handler("doWireNo", << >>, "", doWireNo(Cur, w))
        /\ config_wire' = w
        /\ UNCHANGED <<Remote, Local, log, pb, thr, announced>>

\* packets keep arriving from the key and from the wire
KeyPacket ==
    \E code \in RaceCodes : Step("from_key", code, "", from_key(Cur, code, Remote))

WirePacket ==
    \E code \in RaceCodes : Step("from_internet", code, "", from_internet(Cur, code))

NextUI ==
    \/ DoConnect
    \/ DoFilePlay
    \/ PlaybackPauseResume
    \/ PlaybackStop
    \/ EndOfStream
    \/ DoWireNo
    \/ KeyPacket
    \/ WirePacket

SpecUI == UIInit /\ [][NextUI]_vars

\* C24: doConnect while the playback state is playing or paused leaves
\* connected as it was and makes no call on the wire, doFilePlay with a file
\* chosen disconnects before it starts the playback, and connected is never
\* true while the playback state is not idle.
C24_LiveXorPlayback ==
    /\ ~(connected /\ pb.state # "idle")
    /\ (last.op = "doConnect" /\ pb.state # "idle")
           => (connected = last.pre.connected /\ fx = << >>)
    /\ (last.op = "doFilePlay" /\ last.id = "file")
           => (~connected /\ pb.state = "playing")

\* a connect request turned down while the playback is paused
C24_Witness ==
    /\ last.op = "doConnect"
    /\ pb.state = "paused"
    /\ ~connected
    /\ fx = << >>

\* C27: every event appended to the session log carries the wire number the
\* configuration holds at that time, whatever wire changes, connects and
\* disconnects came before.
C27_EventsCarryConfiguredWire ==
    \A i \in At("record") : fx[i].w = config_wire

============================================================================
